---- MODULE Spec2Model ----
(***************************************************************************)
(* A model of TProfile2Poly (src/hist/hist/src/TProfile2Poly.cxx): the     *)
(* per-bin accumulator TProfile2PolyBin, the aggregator's Fill, Merge and  *)
(* its per-bin accessors.                                                  *)
(*                                                                         *)
(* Double_t quantities are modelled exactly.  The four moment sums and the *)
(* global sums stay integers because samples are drawn from small integer  *)
(* sets (on which double arithmetic is exact).  A quotient is a reduced    *)
(* fraction, a square root is kept as the root of a reduced fraction, and  *)
(* the IEEE results NaN and +Inf are values of their own.                  *)
(***************************************************************************)
EXTENDS Integers, Sequences, FiniteSets, TLC

VARIABLES agg, last, ncalls, fault

vars == <<agg, last, ncalls, fault>>

(***************************************************************************)
(* Bounds of the model.                                                    *)
(***************************************************************************)
MaxCalls == 3
MaxGridFills == 2
MaxSamples == 3

(***************************************************************************)
(* Program constants and constructor arguments.                            *)
(***************************************************************************)
kNOverflow == 9

XMin == 0
XMax == 2
YMin == 0
YMax == 2
CellX == 1
CellY == 1

(***************************************************************************)
(* Double_t values that are not plain sums.                                *)
(***************************************************************************)
Abs(n) == IF n < 0 THEN -n ELSE n

RECURSIVE GCD(_, _)
GCD(a, b) == IF b = 0 THEN a ELSE GCD(b, a % b)

NaN == [k |-> "nan", n |-> 0, d |-> 1]
Inf == [k |-> "inf", n |-> 0, d |-> 1]

\* the quotient n / d of two integers, d # 0, as a reduced fraction
Quot(n, d) ==
    LET g == GCD(Abs(n), Abs(d))
        s == IF d < 0 THEN -1 ELSE 1
    IN  [k |-> "q", n |-> (s * n) \div g, d |-> (s * d) \div g]

Zero == Quot(0, 1)

IsSquare(n) == \E r \in 0..n : r * r = n
Root(n) == CHOOSE r \in 0..n : r * r = n

\* std::sqrt of the fraction n / d, d > 0
SqrtQ(n, d) ==
    LET q == Quot(n, d)
    IN  IF q.n < 0 THEN NaN
        ELSE IF IsSquare(q.n) /\ IsSquare(q.d) THEN Quot(Root(q.n), Root(q.d))
        ELSE [k |-> "sqrt", n |-> q.n, d |-> q.d]

Num(n) == Quot(n, 1)

\* the square of a non-negative value, as a pair <<numerator, denominator>>
SquareOf(t) == IF t.k = "q" THEN <<t.n * t.n, t.d * t.d>> ELSE <<t.n, t.d>>

\* t / std::sqrt(e) for t a square root (or NaN) and e a fraction:
\* 0/0 is NaN, a positive value over 0 is +Inf
DivSqrt(t, e) ==
    IF t.k = "nan" \/ e.k = "nan" \/ e.n < 0 THEN NaN
    ELSE IF e.n = 0 THEN (IF t.n = 0 THEN NaN ELSE Inf)
    ELSE LET p == SquareOf(t) IN SqrtQ(p[1] * e.d, p[2] * e.n)

(***************************************************************************)
(* TProfile2PolyBin                                                        *)
(***************************************************************************)
ErrorModes == {"kERRORMEAN", "kERRORSPREAD"}

\* both constructors; poly is "" for an overflow bin
TProfile2PolyBin_New(poly, bin_number) ==
    [fSumw |-> 0, fSumvw |-> 0, fSumw2 |-> 0, fSumwv2 |-> 0,
     fError |-> Zero, fAverage |-> Zero, fErrorMode |-> "kERRORSPREAD",
     fContent |-> Zero, fChanged |-> TRUE, fPoly |-> poly, fNumber |-> bin_number]

\* mutant: the last sum takes the other bin's fSumw2
TProfile2PolyBin_Merge_WrongSum(b, toMerge) ==
    [b EXCEPT !.fSumw = @ + toMerge.fSumw,
              !.fSumvw = @ + toMerge.fSumvw,
              !.fSumw2 = @ + toMerge.fSumw2,
              !.fSumwv2 = @ + toMerge.fSumw2]

TProfile2PolyBin_Merge(b, toMerge) ==
    [b EXCEPT !.fSumw = @ + toMerge.fSumw,
              !.fSumvw = @ + toMerge.fSumvw,
              !.fSumw2 = @ + toMerge.fSumw2,
              !.fSumwv2 = @ + toMerge.fSumwv2]

\* mutant: a zero sum of weights resets the average
TProfile2PolyBin_UpdateAverage_ResetOnZero(b) ==
    IF b.fSumw # 0 THEN [b EXCEPT !.fAverage = Quot(b.fSumvw, b.fSumw)]
    ELSE [b EXCEPT !.fAverage = Zero]

TProfile2PolyBin_UpdateAverage(b) ==
    IF b.fSumw # 0 THEN [b EXCEPT !.fAverage = Quot(b.fSumvw, b.fSumw)] ELSE b

GetEffectiveEntries(b) ==
    IF b.fSumw2 = 0 THEN Zero ELSE Quot(b.fSumw * b.fSumw, b.fSumw2)

\* (fSumwv2 / fSumw) - (fAverage * fAverage), fSumw # 0
Variance(b) ==
    IF b.fAverage.k # "q" THEN NaN
    ELSE Quot(b.fSumwv2 * b.fAverage.d * b.fAverage.d
                - b.fAverage.n * b.fAverage.n * b.fSumw,
              b.fSumw * b.fAverage.d * b.fAverage.d)

TProfile2PolyBin_UpdateError(b) ==
    LET var == Variance(b)
        tmp == IF b.fSumw # 0
               THEN (IF var.k = "nan" THEN NaN ELSE SqrtQ(var.n, var.d))
               ELSE Zero
    IN  [b EXCEPT !.fError =
            IF b.fErrorMode = "kERRORSPREAD" THEN tmp
            ELSE DivSqrt(tmp, GetEffectiveEntries(b))]

SetChanged(b, flag) == [b EXCEPT !.fChanged = flag]

TProfile2PolyBin_Update(b) ==
    SetChanged(TProfile2PolyBin_UpdateError(TProfile2PolyBin_UpdateAverage(b)), TRUE)

\* mutant: fSumvw is not cleared
TProfile2PolyBin_ClearStats_KeepsSumvw(b) ==
    [b EXCEPT !.fSumw = 0, !.fSumw2 = 0, !.fSumwv2 = 0,
              !.fError = Zero, !.fAverage = Zero]

TProfile2PolyBin_ClearStats(b) ==
    [b EXCEPT !.fSumw = 0, !.fSumvw = 0, !.fSumw2 = 0, !.fSumwv2 = 0,
              !.fError = Zero, !.fAverage = Zero]

\* mutant: the sums are added and Update is left to the caller
TProfile2PolyBin_Fill_NoUpdate(b, value, weight) ==
    [b EXCEPT !.fSumw = @ + weight,
              !.fSumvw = @ + value * weight,
              !.fSumw2 = @ + weight * weight,
              !.fSumwv2 = @ + weight * value * value]

TProfile2PolyBin_Fill(b, value, weight) ==
    TProfile2PolyBin_Update(
        [b EXCEPT !.fSumw = @ + weight,
                  !.fSumvw = @ + value * weight,
                  !.fSumw2 = @ + weight * weight,
                  !.fSumwv2 = @ + weight * value * value])

SetContent(b, content) == SetChanged([b EXCEPT !.fContent = content], TRUE)

\* TH2PolyBin::ClearContent
ClearContent(b) == SetChanged([b EXCEPT !.fContent = Zero], TRUE)

TProfile2PolyBin_SetErrorOption(b, type) == [b EXCEPT !.fErrorMode = type]

\* the polygons a bin can be built on, as the grid points inside them
Polys == {"W", "L", "R"}

IsInside(b, x, y) ==
    /\ x \in XMin..XMax
    /\ y \in YMin..YMax
    /\ CASE b.fPoly = "W" -> TRUE
         [] b.fPoly = "L" -> x = XMin
         [] b.fPoly = "R" -> x > XMin
         [] OTHER -> FALSE

(***************************************************************************)
(* TProfile2Poly                                                           *)
(***************************************************************************)
\* the constructor followed by AddBin of each polygon of polys, in order
TProfile2Poly_New(polys) ==
    [fNcells |-> kNOverflow + Len(polys),
     fBins |-> [i \in 1..Len(polys) |-> TProfile2PolyBin_New(polys[i], i)],
     fOverflowBins |-> [i \in 1..kNOverflow |-> TProfile2PolyBin_New("", 0)],
     fOverflow |-> [i \in 1..kNOverflow |-> 0],
     fErrorMode |-> "kERRORSPREAD",
     fEntries |-> 0,
     fTsumw |-> 0, fTsumw2 |-> 0, fTsumwx |-> 0, fTsumwx2 |-> 0, fTsumwy |-> 0,
     fTsumwy2 |-> 0, fTsumwxy |-> 0, fTsumwz |-> 0, fTsumwz2 |-> 0]

GetNumberOfBins(h) == h.fNcells - kNOverflow

\* mutant: the upper bound of the x axis already belongs to the right column
GetOverflowRegionFromCoordinates_UpperExclusive(h, x, y) ==
    IF h.fNcells <= kNOverflow THEN 0
    ELSE (IF y > YMax THEN -1 ELSE IF y > YMin THEN -4 ELSE -7)
         + (IF x >= XMax THEN -2 ELSE IF x > XMin THEN -1 ELSE 0)

GetOverflowRegionFromCoordinates(h, x, y) ==
    IF h.fNcells <= kNOverflow THEN 0
    ELSE (IF y > YMax THEN -1 ELSE IF y > YMin THEN -4 ELSE -7)
         + (IF x > XMax THEN -2 ELSE IF x > XMin THEN -1 ELSE 0)

OverflowIdxToArrayIdx(val) == -val - 1

\* mutant: the centre accumulator is never filled
FillOverflow_SkipCentre(h, idx, value, weight) ==
    IF idx \in 0..(kNOverflow - 1) /\ idx # 4
    THEN [h EXCEPT !.fOverflowBins[idx + 1] = TProfile2PolyBin_Fill(@, value, weight)]
    ELSE h

\* fOverflowBins[idx].Fill(value, weight); an index outside the array reaches
\* none of the nine accumulators
FillOverflow(h, idx, value, weight) ==
    IF idx \in 0..(kNOverflow - 1)
    THEN [h EXCEPT !.fOverflowBins[idx + 1] = TProfile2PolyBin_Fill(@, value, weight)]
    ELSE h

\* the cell of the partition that Fill looks the bins up in
CellOf(x, y) ==
    LET n0 == ((x - XMin) * CellX) \div (XMax - XMin)
        m0 == ((y - YMin) * CellY) \div (YMax - YMin)
        n1 == IF n0 >= CellX THEN CellX - 1 ELSE n0
        m1 == IF m0 >= CellY THEN CellY - 1 ELSE m0
        n == IF n1 < 0 THEN 0 ELSE n1
        m == IF m1 < 0 THEN 0 ELSE m1
    IN  n + CellX * m

\* fCells[cell]: the bins whose polygon overlaps the cell
CellBins(h, cell) == {i \in 1..Len(h.fBins) : cell \in 0..(CellX * CellY - 1)}

\* mutant: the first global sum takes the squared weight of the line below it
FillGlobals_SquaredWeight(h, x, y, value, weight) ==
    [h EXCEPT !.fTsumw = @ + weight * weight,
              !.fTsumw2 = @ + weight * weight,
              !.fTsumwx = @ + weight * x,
              !.fTsumwx2 = @ + weight * x * x,
              !.fTsumwy = @ + weight * y,
              !.fTsumwy2 = @ + weight * y * y,
              !.fTsumwxy = @ + weight * x * y,
              !.fTsumwz = @ + weight * value,
              !.fTsumwz2 = @ + weight * value * value]

FillGlobals(h, x, y, value, weight) ==
    [h EXCEPT !.fTsumw = @ + weight,
              !.fTsumw2 = @ + weight * weight,
              !.fTsumwx = @ + weight * x,
              !.fTsumwx2 = @ + weight * x * x,
              !.fTsumwy = @ + weight * y,
              !.fTsumwy2 = @ + weight * y * y,
              !.fTsumwxy = @ + weight * x * y,
              !.fTsumwz = @ + weight * value,
              !.fTsumwz2 = @ + weight * value * value]

\* one pass of the loop over the cell's bins
FillBin(b, value, weight) ==
    LET b1 == TProfile2PolyBin_Update(TProfile2PolyBin_Fill(b, value, weight))
    IN  SetContent(b1, b1.fAverage)

\* mutant: fEntries counts every Fill
FillBins_CountEveryFill(h, x, y, value, weight) ==
    LET hit == {i \in CellBins(h, CellOf(x, y)) : IsInside(h.fBins[i], x, y)}
    IN  [h EXCEPT !.fEntries = @ + 1,
                  !.fBins = [i \in 1..Len(h.fBins) |->
                                IF i \in hit THEN FillBin(h.fBins[i], value, weight)
                                ELSE h.fBins[i]]]

FillBins(h, x, y, value, weight) ==
    LET hit == {i \in CellBins(h, CellOf(x, y)) : IsInside(h.fBins[i], x, y)}
    IN  [h EXCEPT !.fEntries = @ + Cardinality(hit),
                  !.fBins = [i \in 1..Len(h.fBins) |->
                                IF i \in hit THEN FillBin(h.fBins[i], value, weight)
                                ELSE h.fBins[i]]]

TProfile2Poly_Fill(h, x, y, value, weight) ==
    LET tmp == GetOverflowRegionFromCoordinates(h, x, y)
        overflow_idx == OverflowIdxToArrayIdx(tmp)
    IN  FillBins(FillGlobals(FillOverflow(h, overflow_idx, value, weight),
                             x, y, value, weight),
                 x, y, value, weight)

\* mutant: the entries are assigned, not added
MergeStats_AssignEntries(h, histo) ==
    [h EXCEPT !.fEntries = histo.fEntries,
              !.fTsumw = @ + histo.fTsumw,
              !.fTsumw2 = @ + histo.fTsumw2,
              !.fTsumwx = @ + histo.fTsumwx,
              !.fTsumwx2 = @ + histo.fTsumwx2,
              !.fTsumwy = @ + histo.fTsumwy,
              !.fTsumwy2 = @ + histo.fTsumwy2,
              !.fTsumwxy = @ + histo.fTsumwxy,
              !.fTsumwz = @ + histo.fTsumwz,
              !.fTsumwz2 = @ + histo.fTsumwz2,
              !.fOverflowBins = [i \in 1..kNOverflow |->
                  TProfile2PolyBin_Merge(@[i], histo.fOverflowBins[i])]]

\* mutant: the overflow bins of the source are not merged
MergeStats_SkipOverflow(h, histo) ==
    [h EXCEPT !.fEntries = @ + histo.fEntries,
              !.fTsumw = @ + histo.fTsumw,
              !.fTsumw2 = @ + histo.fTsumw2,
              !.fTsumwx = @ + histo.fTsumwx,
              !.fTsumwx2 = @ + histo.fTsumwx2,
              !.fTsumwy = @ + histo.fTsumwy,
              !.fTsumwy2 = @ + histo.fTsumwy2,
              !.fTsumwxy = @ + histo.fTsumwxy,
              !.fTsumwz = @ + histo.fTsumwz,
              !.fTsumwz2 = @ + histo.fTsumwz2]

MergeStats(h, histo) ==
    [h EXCEPT !.fEntries = @ + histo.fEntries,
              !.fTsumw = @ + histo.fTsumw,
              !.fTsumw2 = @ + histo.fTsumw2,
              !.fTsumwx = @ + histo.fTsumwx,
              !.fTsumwx2 = @ + histo.fTsumwx2,
              !.fTsumwy = @ + histo.fTsumwy,
              !.fTsumwy2 = @ + histo.fTsumwy2,
              !.fTsumwxy = @ + histo.fTsumwxy,
              !.fTsumwz = @ + histo.fTsumwz,
              !.fTsumwz2 = @ + histo.fTsumwz2,
              !.fOverflowBins = [i \in 1..kNOverflow |->
                  TProfile2PolyBin_Merge(@[i], histo.fOverflowBins[i])]]

\* the loop over the list that updates the global statistics
RECURSIVE MergeStatsAll(_, _)
MergeStatsAll(h, list) ==
    IF list = <<>> THEN h ELSE MergeStatsAll(MergeStats(h, Head(list)), Tail(list))

\* mutant: only the first histogram of the list is merged into the bin
MergeBinAll_FirstOnly(dst, list, i) ==
    IF list = <<>> THEN dst ELSE TProfile2PolyBin_Merge(dst, Head(list).fBins[i])

\* the inner loop: dst->Merge(src) for the bin at position i of every histogram
RECURSIVE MergeBinAll(_, _, _)
MergeBinAll(dst, list, i) ==
    IF list = <<>> THEN dst
    ELSE MergeBinAll(TProfile2PolyBin_Merge(dst, Head(list).fBins[i]), Tail(list), i)

\* the outer loop over i < nbins; it stops at the first i for which
\* fBins->At(i) is null
MergeBins(h, list, nbins) ==
    [h EXCEPT !.fBins = [i \in 1..Len(h.fBins) |->
        IF i <= nbins THEN TProfile2PolyBin_Update(MergeBinAll(h.fBins[i], list, i))
        ELSE h.fBins[i]]]

SetContentToAverage(h) ==
    [h EXCEPT !.fBins = [i \in 1..Len(h.fBins) |->
        LET bin == TProfile2PolyBin_Update(h.fBins[i])
        IN  SetContent(bin, bin.fAverage)]]

SetContentToError(h) ==
    [h EXCEPT !.fBins = [i \in 1..Len(h.fBins) |->
        LET bin == TProfile2PolyBin_Update(h.fBins[i])
        IN  SetContent(bin, bin.fError)]]

numBinUnique(list) == {Len(list[i].fBins) : i \in 1..Len(list)}

\* mutant: the bin numbers are compared after the global statistics are merged
TProfile2Poly_Merge_LateCheck(h, list) ==
    IF Len(list) = 0 THEN [h |-> h, ret |-> -1, null |-> FALSE]
    ELSE IF Cardinality(numBinUnique(list)) # 1
         THEN [h |-> MergeStatsAll(h, list), ret |-> -1, null |-> FALSE]
    ELSE LET nbins == CHOOSE n \in numBinUnique(list) : TRUE
             h1 == MergeBins(MergeStatsAll(h, list), list, nbins)
         IN  IF nbins > Len(h.fBins)
             THEN [h |-> h1, ret |-> 0, null |-> TRUE]
             ELSE [h |-> SetContentToAverage(h1), ret |-> 1, null |-> FALSE]

\* Merge(const std::vector<TProfile2Poly *> &list): the histogram it leaves,
\* what it returns, and whether it dereferenced a null bin on the way
TProfile2Poly_Merge(h, list) ==
    IF Len(list) = 0 THEN [h |-> h, ret |-> -1, null |-> FALSE]
    ELSE IF Cardinality(numBinUnique(list)) # 1 THEN [h |-> h, ret |-> -1, null |-> FALSE]
    ELSE LET nbins == CHOOSE n \in numBinUnique(list) : TRUE
             h1 == MergeBins(MergeStatsAll(h, list), list, nbins)
         IN  IF nbins > Len(h.fBins)
             THEN [h |-> h1, ret |-> 0, null |-> TRUE]
             ELSE [h |-> SetContentToAverage(h1), ret |-> 1, null |-> FALSE]

\* TH2Poly::AddBin: the bin that CreateBin returns is appended to fBins
AddBin(h, poly) ==
    LET ibin == (h.fNcells + 1) - kNOverflow
    IN  [h EXCEPT !.fNcells = @ + 1,
                  !.fBins = Append(@, TProfile2PolyBin_New(poly, ibin))]

\* TH2::Reset: the entries and the sums of the histogram
TH2_Reset(h) ==
    [h EXCEPT !.fEntries = 0,
              !.fTsumw = 0, !.fTsumw2 = 0, !.fTsumwx = 0, !.fTsumwx2 = 0, !.fTsumwy = 0,
              !.fTsumwy2 = 0, !.fTsumwxy = 0, !.fTsumwz = 0, !.fTsumwz2 = 0]

TProfile2Poly_Reset(h) ==
    TH2_Reset([h EXCEPT !.fBins = [i \in 1..Len(h.fBins) |->
                                     TProfile2PolyBin_ClearStats(ClearContent(h.fBins[i]))]])

\* mutant: the overflow bins take the mode as well
TProfile2Poly_SetErrorOption_AlsoOverflow(h, type) ==
    [h EXCEPT !.fErrorMode = type,
              !.fBins = [i \in 1..Len(h.fBins) |->
                            TProfile2PolyBin_SetErrorOption(h.fBins[i], type)],
              !.fOverflowBins = [k \in 1..kNOverflow |->
                            TProfile2PolyBin_SetErrorOption(h.fOverflowBins[k], type)]]

TProfile2Poly_SetErrorOption(h, type) ==
    [h EXCEPT !.fErrorMode = type,
              !.fBins = [i \in 1..Len(h.fBins) |->
                            TProfile2PolyBin_SetErrorOption(h.fBins[i], type)]]

\* the getters of TProfile2PolyBin
GetEntries(b) == Num(b.fSumw)
GetEntriesW2(b) == Num(b.fSumw2)
GetEntriesVW(b) == Num(b.fSumvw)
GetEntriesWV2(b) == Num(b.fSumwv2)
GetError(b) == b.fError

\* the arrays of the code are 0-based: slot -bin - 1 is element -bin here,
\* and fBins->At(bin - 1) is fBins[bin]
GetBinEffectiveEntries(h, bin) ==
    IF bin > GetNumberOfBins(h) \/ bin = 0 \/ bin < -kNOverflow THEN Zero
    ELSE IF bin < 0 THEN Num(h.fOverflow[-bin])
    ELSE GetEffectiveEntries(h.fBins[bin])

GetBinEntries(h, bin) ==
    IF bin > GetNumberOfBins(h) \/ bin = 0 \/ bin < -kNOverflow THEN Zero
    ELSE IF bin < 0 THEN GetEntries(h.fOverflowBins[-bin])
    ELSE GetEntries(h.fBins[bin])

GetBinEntriesW2(h, bin) ==
    IF bin > GetNumberOfBins(h) \/ bin = 0 \/ bin < -kNOverflow THEN Zero
    ELSE IF bin < 0 THEN GetEntriesW2(h.fOverflowBins[-bin])
    ELSE GetEntriesW2(h.fBins[bin])

GetBinEntriesVW(h, bin) ==
    IF bin > GetNumberOfBins(h) \/ bin = 0 \/ bin < -kNOverflow THEN Zero
    ELSE IF bin < 0 THEN GetEntriesVW(h.fOverflowBins[-bin])
    ELSE GetEntriesVW(h.fBins[bin])

GetBinEntriesWV2(h, bin) ==
    IF bin > GetNumberOfBins(h) \/ bin = 0 \/ bin < -kNOverflow THEN Zero
    ELSE IF bin < 0 THEN GetEntriesWV2(h.fOverflowBins[-bin])
    ELSE GetEntriesWV2(h.fBins[bin])

GetBinError(h, bin) ==
    IF bin > GetNumberOfBins(h) \/ bin = 0 \/ bin < -kNOverflow THEN Zero
    ELSE IF bin < 0 THEN GetError(h.fOverflowBins[-bin])
    ELSE GetError(h.fBins[bin])

Accessors == {"GetBinEffectiveEntries", "GetBinEntries", "GetBinEntriesW2",
              "GetBinEntriesVW", "GetBinEntriesWV2", "GetBinError"}

(***************************************************************************)
(* The state: the histograms, the last call with its arguments and result, *)
(* the number of calls made, and whether a call has left defined behaviour.*)
(***************************************************************************)
NoCall == [op |-> "none", a |-> "T", x |-> 0, y |-> 0, v |-> 0, w |-> 0,
           list |-> <<>>, bin |-> 0, ret |-> 0]

\* a histogram per name, each built on its own list of polygons
Construct(polys) ==
    /\ agg = [a \in DOMAIN polys |-> TProfile2Poly_New(polys[a])]
    /\ last = NoCall
    /\ ncalls = 0
    /\ fault = FALSE

Fill(a, x, y, value, weight) ==
    /\ ~fault
    /\ agg' = [agg EXCEPT ![a] = TProfile2Poly_Fill(@, x, y, value, weight)]
    /\ last' = [op |-> "Fill", a |-> a, x |-> x, y |-> y, v |-> value, w |-> weight,
                list |-> <<>>, bin |-> 0,
                ret |-> GetOverflowRegionFromCoordinates(agg[a], x, y)]
    /\ fault' = (OverflowIdxToArrayIdx(GetOverflowRegionFromCoordinates(agg[a], x, y))
                    \notin 0..(kNOverflow - 1))
    /\ ncalls' = ncalls + 1

Merge(a, ids) ==
    /\ ~fault
    /\ LET r == TProfile2Poly_Merge(agg[a], [i \in 1..Len(ids) |-> agg[ids[i]]])
       IN  /\ agg' = [agg EXCEPT ![a] = r.h]
           /\ last' = [NoCall EXCEPT !.op = "Merge", !.a = a, !.list = ids, !.ret = r.ret]
           /\ fault' = r.null
    /\ ncalls' = ncalls + 1

\* one of the six accessors, called with a bin number
Get(a, acc, bin) ==
    /\ ~fault
    /\ last' = [NoCall EXCEPT !.op = acc, !.a = a, !.bin = bin, !.ret =
                    CASE acc = "GetBinEffectiveEntries" -> GetBinEffectiveEntries(agg[a], bin)
                      [] acc = "GetBinEntries" -> GetBinEntries(agg[a], bin)
                      [] acc = "GetBinEntriesW2" -> GetBinEntriesW2(agg[a], bin)
                      [] acc = "GetBinEntriesVW" -> GetBinEntriesVW(agg[a], bin)
                      [] acc = "GetBinEntriesWV2" -> GetBinEntriesWV2(agg[a], bin)
                      [] acc = "GetBinError" -> GetBinError(agg[a], bin)]
    /\ ncalls' = ncalls + 1
    /\ UNCHANGED <<agg, fault>>

\* Fill(xcoord, ycoord, value), the overload that fills with weight 1; the
\* list of the call record is the values filled this way, one after the
\* other, since the last call of another kind
Fill3(a, x, y, value) ==
    /\ ~fault
    /\ agg' = [agg EXCEPT ![a] = TProfile2Poly_Fill(@, x, y, value, 1)]
    /\ last' = [op |-> "Fill3", a |-> a, x |-> x, y |-> y, v |-> value, w |-> 1,
                list |-> Append(last.list, value), bin |-> 0,
                ret |-> GetOverflowRegionFromCoordinates(agg[a], x, y)]
    /\ fault' = (OverflowIdxToArrayIdx(GetOverflowRegionFromCoordinates(agg[a], x, y))
                    \notin 0..(kNOverflow - 1))
    /\ ncalls' = ncalls + 1

\* a call on an object that leaves the other objects alone
Call(a, h, op) ==
    /\ ~fault
    /\ agg' = [agg EXCEPT ![a] = h]
    /\ last' = op
    /\ ncalls' = ncalls + 1
    /\ UNCHANGED fault

\* the methods of the interior bin number bin of a histogram
BinFill(a, bin, value, weight) ==
    Call(a, [agg[a] EXCEPT !.fBins[bin] = TProfile2PolyBin_Fill(@, value, weight)],
         [NoCall EXCEPT !.op = "BinFill", !.a = a, !.bin = bin, !.v = value, !.w = weight])

BinUpdate(a, bin) ==
    Call(a, [agg[a] EXCEPT !.fBins[bin] = TProfile2PolyBin_Update(@)],
         [NoCall EXCEPT !.op = "BinUpdate", !.a = a, !.bin = bin])

BinClearStats(a, bin) ==
    Call(a, [agg[a] EXCEPT !.fBins[bin] = TProfile2PolyBin_ClearStats(@)],
         [NoCall EXCEPT !.op = "BinClearStats", !.a = a, !.bin = bin])

SetErrorOption(a, type) ==
    Call(a, TProfile2Poly_SetErrorOption(agg[a], type),
         [NoCall EXCEPT !.op = "SetErrorOption", !.a = a, !.list = <<type>>])

Reset(a) ==
    Call(a, TProfile2Poly_Reset(agg[a]), [NoCall EXCEPT !.op = "Reset", !.a = a])

Register(a, poly) ==
    Call(a, AddBin(agg[a], poly), [NoCall EXCEPT !.op = "AddBin", !.a = a, !.list = <<poly>>])

(***************************************************************************)
(* Spec: a target T and two sources A and B on the same two polygons; any  *)
(* of them is filled, and any list of sources is merged into T.            *)
(* SpecMismatch: the same calls with B built on one polygon only.          *)
(***************************************************************************)
Sources == {"A", "B"}

\* the domain's lower corner (in polygon L) and a point inside it (in R)
Points == {<<XMin, YMin>>, <<XMin + 1, YMin + 1>>}
Values == {1, 2}
Weights == {-1, 1}

Lists == UNION {[1..n -> Sources] : n \in 0..2}

Init == Construct([a \in {"T", "A", "B"} |-> <<"L", "R">>])

InitMismatch ==
    Construct([a \in {"T", "A", "B"} |-> IF a = "B" THEN <<"W">> ELSE <<"L", "R">>])

FillAny ==
    /\ ncalls < MaxCalls
    /\ \E a \in DOMAIN agg, p \in Points, value \in Values, weight \in Weights :
          Fill(a, p[1], p[2], value, weight)

MergeAny ==
    /\ ncalls < MaxCalls
    /\ \E ids \in Lists : Merge("T", ids)

Next == FillAny \/ MergeAny

Spec == Init /\ [][Next]_vars

SpecMismatch == InitMismatch /\ [][Next]_vars

(***************************************************************************)
(* SpecFill: one histogram, filled at every point of a grid that reaches   *)
(* one step beyond the axis ranges.  Its polygons are a partition (L, R),  *)
(* a partition with a gap (L alone) or two overlapping polygons (W, L).    *)
(***************************************************************************)
XCoords == (XMin - 1)..(XMax + 1)
YCoords == (YMin - 1)..(YMax + 1)
GridValues == {2}
GridWeights == {-1, 1}

InitFill ==
    \E polys \in {<<"L", "R">>, <<"L">>, <<"W", "L">>} : Construct([a \in {"T"} |-> polys])

FillGrid ==
    /\ ncalls < MaxGridFills
    /\ \E x \in XCoords, y \in YCoords, value \in GridValues, weight \in GridWeights :
          Fill("T", x, y, value, weight)

NextFill == FillGrid

SpecFill == InitFill /\ [][NextFill]_vars

(***************************************************************************)
(* SpecShard: every sample goes to one of the shards A and B and, for      *)
(* comparison, to the histogram R that is filled with all of them; then    *)
(* the shards are merged into the never-filled T.                          *)
(***************************************************************************)
\* the two points of Points and a corner outside the domain
ShardPoints == Points \cup {<<XMin - 1, YMin - 1>>}

InitShard == Construct([a \in {"T", "A", "B", "R"} |-> <<"L", "R">>])

FillShard ==
    /\ ncalls < MaxSamples
    /\ last.op # "Merge"
    /\ ~fault
    /\ \E a \in {"A", "B"}, p \in ShardPoints, value \in Values, weight \in Weights :
          /\ agg' = [agg EXCEPT
                ![a] = TProfile2Poly_Fill(@, p[1], p[2], value, weight),
                !["R"] = TProfile2Poly_Fill(@, p[1], p[2], value, weight)]
          /\ last' = [op |-> "Fill", a |-> a, x |-> p[1], y |-> p[2], v |-> value,
                      w |-> weight, list |-> <<>>,
                      ret |-> GetOverflowRegionFromCoordinates(agg[a], p[1], p[2])]
          /\ fault' = (OverflowIdxToArrayIdx(
                          GetOverflowRegionFromCoordinates(agg[a], p[1], p[2]))
                       \notin 0..(kNOverflow - 1))
          /\ ncalls' = ncalls + 1

MergeShards ==
    /\ last.op # "Merge"
    /\ Merge("T", <<"A", "B">>)

NextShard == FillShard \/ MergeShards

SpecShard == InitShard /\ [][NextShard]_vars

(***************************************************************************)
(* SpecOrder: the sources A, B and C are filled, then merged into three    *)
(* never-filled targets: [A, B] then [C] into T1, [A] then [B, C] into T2, *)
(* and [C, B, A] into T3.                                                  *)
(***************************************************************************)
MergeProgram == <<
    [a |-> "T1", list |-> <<"A", "B">>],
    [a |-> "T1", list |-> <<"C">>],
    [a |-> "T2", list |-> <<"A">>],
    [a |-> "T2", list |-> <<"B", "C">>],
    [a |-> "T3", list |-> <<"C", "B", "A">>] >>

InitOrder == Construct([a \in {"A", "B", "C", "T1", "T2", "T3"} |-> <<"L", "R">>])

FillSource ==
    /\ ncalls < MaxSamples
    /\ last.op # "Merge"
    /\ \E a \in {"A", "B", "C"}, p \in Points, value \in Values, weight \in Weights :
          Fill(a, p[1], p[2], value, weight)

\* the merges of MergeProgram, one after the other
MergeInOrder ==
    \E k \in 1..Len(MergeProgram) :
        /\ IF k = 1 THEN last.op # "Merge"
           ELSE /\ last.op = "Merge"
                /\ last.a = MergeProgram[k - 1].a
                /\ last.list = MergeProgram[k - 1].list
        /\ Merge(MergeProgram[k].a, MergeProgram[k].list)

NextOrder == FillSource \/ MergeInOrder

SpecOrder == InitOrder /\ [][NextOrder]_vars

(***************************************************************************)
(* SpecRead: one histogram on the polygons L and R; it is filled inside    *)
(* and outside the domain, and every accessor is called with every bin     *)
(* number from one below the overflow range to one above the interior one. *)
(***************************************************************************)
BinNumbers == (-kNOverflow - 1)..3

InitRead == Construct([a \in {"T"} |-> <<"L", "R">>])

FillRead ==
    /\ ncalls < MaxGridFills
    /\ \E p \in ShardPoints, value \in Values, weight \in Weights :
          Fill("T", p[1], p[2], value, weight)

GetAny ==
    /\ ncalls < MaxGridFills
    /\ \E acc \in Accessors, bin \in BinNumbers : Get("T", acc, bin)

NextRead == FillRead \/ GetAny

SpecRead == InitRead /\ [][NextRead]_vars

(***************************************************************************)
(* SpecBin: one histogram with one bin on the whole domain.  The bin is    *)
(* filled through the histogram and directly, updated and cleared, and the *)
(* error option is set, in any order.                                      *)
(***************************************************************************)
BinWeights == {-1, 0, 1}

InitBin == Construct([a \in {"T"} |-> <<"W">>])

FillInBin ==
    /\ ncalls < MaxCalls
    /\ \E value \in Values, weight \in BinWeights :
          Fill("T", XMin + 1, YMin + 1, value, weight)

BinFillAny ==
    /\ ncalls < MaxCalls
    /\ \E value \in Values, weight \in BinWeights : BinFill("T", 1, value, weight)

BinUpdateAny == ncalls < MaxCalls /\ BinUpdate("T", 1)

BinClearStatsAny == ncalls < MaxCalls /\ BinClearStats("T", 1)

SetErrorOptionAny ==
    /\ ncalls < MaxCalls
    /\ \E type \in ErrorModes : SetErrorOption("T", type)

NextBin == FillInBin \/ BinFillAny \/ BinUpdateAny \/ BinClearStatsAny \/ SetErrorOptionAny

SpecBin == InitBin /\ [][NextBin]_vars

(***************************************************************************)
(* SpecMean: one histogram with one bin on the whole domain.  The bin is   *)
(* fresh, or filled with any weights and then cleared, and is then filled  *)
(* with weight 1 a number of times.                                        *)
(***************************************************************************)
MeanValues == {10, 15, 20}
MeanWeights == {-1, 2}

FillWeighted ==
    /\ ncalls < MaxSamples
    /\ last.op \in {"none", "Fill"}
    /\ \E value \in MeanValues, weight \in MeanWeights :
          Fill("T", XMin + 1, YMin + 1, value, weight)

ClearFilled ==
    /\ ncalls < MaxSamples
    /\ last.op \in {"Fill", "Fill3"}
    /\ BinClearStats("T", 1)

FillUnit ==
    /\ ncalls < MaxSamples
    /\ last.op \in {"none", "BinClearStats", "Fill3"}
    /\ \E value \in MeanValues : Fill3("T", XMin + 1, YMin + 1, value)

NextMean == FillWeighted \/ ClearFilled \/ FillUnit

SpecMean == InitBin /\ [][NextMean]_vars

(***************************************************************************)
(* SpecReset: a histogram T and a source A on the same two polygons; both  *)
(* are filled inside and outside the domain, A is merged into T, and T is  *)
(* reset, in any order.                                                    *)
(***************************************************************************)
InitReset == Construct([a \in {"T", "A"} |-> <<"L", "R">>])

FillBeforeReset ==
    /\ ncalls < MaxCalls
    /\ \E a \in DOMAIN agg, p \in ShardPoints, value \in GridValues, weight \in GridWeights :
          Fill(a, p[1], p[2], value, weight)

MergeBeforeReset == ncalls < MaxCalls /\ Merge("T", <<"A">>)

ResetAny == ncalls < MaxCalls /\ Reset("T")

NextReset == FillBeforeReset \/ MergeBeforeReset \/ ResetAny

SpecReset == InitReset /\ [][NextReset]_vars

(***************************************************************************)
(* SpecRegister: a histogram T that starts with no bin, and a source A     *)
(* with one bin.  Bins are registered on T, its error option is set, it is *)
(* filled and A is merged into it, in any order.                           *)
(***************************************************************************)
InitRegister == Construct([a \in {"T", "A"} |-> IF a = "T" THEN <<>> ELSE <<"W">>])

RegisterAny ==
    /\ ncalls < MaxCalls
    /\ \E poly \in Polys : Register("T", poly)

FillRegistered ==
    /\ ncalls < MaxCalls
    /\ \E p \in ShardPoints, value \in GridValues, weight \in GridWeights :
          Fill("T", p[1], p[2], value, weight)

MergeRegistered == ncalls < MaxCalls /\ Merge("T", <<"A">>)

NextRegister == RegisterAny \/ SetErrorOptionAny \/ FillRegistered \/ MergeRegistered

SpecRegister == InitRegister /\ [][NextRegister]_vars

(***************************************************************************)
(* SpecTarget: the calls of Spec, with the target T built on one polygon   *)
(* and the sources A and B on two.                                         *)
(***************************************************************************)
InitTarget ==
    Construct([a \in {"T", "A", "B"} |-> IF a = "T" THEN <<"W">> ELSE <<"L", "R">>])

SpecTarget == InitTarget /\ [][Next]_vars

(***************************************************************************)
(* What the claims are stated with.                                        *)
(***************************************************************************)
RECURSIVE SeqSum(_)
SeqSum(s) == IF s = <<>> THEN 0 ELSE Head(s) + SeqSum(Tail(s))

Moments(b) == <<b.fSumw, b.fSumvw, b.fSumw2, b.fSumwv2>>

Globals(h) == <<h.fTsumw, h.fTsumw2, h.fTsumwx, h.fTsumwx2, h.fTsumwy, h.fTsumwy2,
                h.fTsumwxy, h.fTsumwz, h.fTsumwz2>>

\* what one sample adds to a bin's four sums and to the nine global sums
SampleMoments(v, w) == <<w, w * v, w * w, w * v * v>>
SampleGlobals(x, y, v, w) ==
    <<w, w * w, w * x, w * x * x, w * y, w * y * y, w * x * y, w * v, w * v * v>>

OverflowSumw(h) == SeqSum([k \in 1..kNOverflow |-> h.fOverflowBins[k].fSumw])
InteriorSumw(h) == SeqSum([i \in 1..Len(h.fBins) |-> h.fBins[i].fSumw])

\* the sum over the merged list of one quantity of each source
OverSources(ids, Q(_)) == SeqSum([j \in 1..Len(ids) |-> Q(agg[ids[j]])])

\* the bin counts of the merged list differ
Mismatched(ids) == Cardinality({Len(agg[ids[j]].fBins) : j \in 1..Len(ids)}) # 1

(***************************************************************************)
(* C1                                                                      *)
(***************************************************************************)
\* C1 as stated: in every state reached by Fill and Merge calls, fTsumw
\* equals the sum of fSumw over all accumulators, the interior bins plus
\* the nine overflow accumulators.
C1_SumwOverAllAccumulators ==
    \A a \in DOMAIN agg : agg[a].fTsumw = InteriorSumw(agg[a]) + OverflowSumw(agg[a])

\* C1 as amended: in every state reached by Fill and Merge calls on
\* histograms with registered bins, fTsumw equals the sum of fSumw over the
\* nine overflow accumulators alone; the interior bins hold the samples
\* that fell in a polygon a second time.
C1_SumwOverOverflowAccumulators ==
    \A a \in DOMAIN agg :
        GetNumberOfBins(agg[a]) > 0 => agg[a].fTsumw = OverflowSumw(agg[a])

\* a merge has added filled sources to a filled target
C1_Witness ==
    /\ last.op = "Merge"
    /\ last.ret = 1
    /\ last.list = <<"A">>
    /\ agg["A"].fTsumw # 0
    /\ agg["T"].fTsumw # agg["A"].fTsumw
    /\ InteriorSumw(agg["T"]) # 0

(***************************************************************************)
(* C2                                                                      *)
(***************************************************************************)
\* C2: a Merge of an empty list, or of a list whose histograms do not all
\* have the same number of bins, returns -1 and leaves every field of the
\* target (and of every other histogram) as it was.
C2_FailedMergeIsAtomic ==
    [][(last'.op = "Merge" /\ (last'.list = <<>> \/ Mismatched(last'.list)))
          => (last'.ret = -1 /\ agg' = agg)]_vars

\* a filled target refused a list of two sources with different bin
\* counts, one of them filled
C2_Witness ==
    /\ last.op = "Merge"
    /\ last.ret = -1
    /\ Len(last.list) = 2
    /\ Mismatched(last.list)
    /\ agg["T"].fEntries > 0
    /\ agg[last.list[1]].fEntries > 0

(***************************************************************************)
(* C3                                                                      *)
(***************************************************************************)
\* the bin at position i of a source, or an accumulator of zeros when the
\* source has no such bin
MomentsAt(h, i) == IF i <= Len(h.fBins) THEN Moments(h.fBins[i]) ELSE <<0, 0, 0, 0>>

\* C3: a Merge that returns 1 leaves the target with its entries, each of
\* its nine global sums, and each of the four sums of every overflow
\* accumulator and of every interior bin increased by the sum over the
\* list of the sources' same quantity, and with every interior bin's
\* content equal to its average, the average being fSumvw / fSumw of the
\* merged sums (the old average where the merged fSumw is 0).
C3_MergeAddsSources ==
    [][(last'.op = "Merge" /\ last'.ret = 1) =>
        LET t == last'.a
            ids == last'.list
            EntriesOf(h) == h.fEntries
        IN  /\ agg'[t].fEntries = agg[t].fEntries + OverSources(ids, EntriesOf)
            /\ \A g \in 1..9 :
                  LET Q(h) == Globals(h)[g]
                  IN  Q(agg'[t]) = Q(agg[t]) + OverSources(ids, Q)
            /\ \A k \in 1..kNOverflow, m \in 1..4 :
                  LET Q(h) == Moments(h.fOverflowBins[k])[m]
                  IN  Q(agg'[t]) = Q(agg[t]) + OverSources(ids, Q)
            /\ Len(agg'[t].fBins) = Len(agg[t].fBins)
            /\ \A i \in 1..Len(agg[t].fBins) :
                  /\ \A m \in 1..4 :
                        LET Q(h) == MomentsAt(h, i)[m]
                        IN  Q(agg'[t]) = Q(agg[t]) + OverSources(ids, Q)
                  /\ agg'[t].fBins[i].fContent = agg'[t].fBins[i].fAverage
                  /\ agg'[t].fBins[i].fAverage =
                        IF agg'[t].fBins[i].fSumw # 0
                        THEN Quot(agg'[t].fBins[i].fSumvw, agg'[t].fBins[i].fSumw)
                        ELSE agg[t].fBins[i].fAverage]_vars

\* two sources, one of them filled, were merged into a filled target
C3_Witness ==
    /\ last.op = "Merge"
    /\ last.ret = 1
    /\ last.list = <<"A", "B">>
    /\ agg["A"].fEntries > 0
    /\ agg["T"].fEntries > agg["A"].fEntries + agg["B"].fEntries

(***************************************************************************)
(* C4                                                                      *)
(***************************************************************************)
\* the same entries, global sums, interior-bin sums and overflow sums
SameStatistics(g, h) ==
    /\ g.fEntries = h.fEntries
    /\ Globals(g) = Globals(h)
    /\ Len(g.fBins) = Len(h.fBins)
    /\ \A i \in 1..Len(g.fBins) : Moments(g.fBins[i]) = Moments(h.fBins[i])
    /\ \A k \in 1..kNOverflow : Moments(g.fOverflowBins[k]) = Moments(h.fOverflowBins[k])

\* C4: once the shards, filled with a sequence of samples split among
\* them, are merged into a never-filled target with the same polygons, the
\* target has the entries, the nine global sums, the four sums of every
\* interior bin and the four sums of every overflow accumulator of the
\* histogram that was filled with all the samples.
C4_ShardThenMerge ==
    last.op = "Merge" => (last.ret = 1 /\ SameStatistics(agg["T"], agg["R"]))

\* both shards were filled before the merge, with samples inside and
\* outside the polygons
C4_Witness ==
    /\ last.op = "Merge"
    /\ agg["A"].fEntries > 0
    /\ agg["B"].fEntries > 0
    /\ agg["R"].fEntries = 2
    /\ agg["R"].fTsumw2 = 3

(***************************************************************************)
(* C5                                                                      *)
(***************************************************************************)
\* C5: merging A, B and C as [A, B] then [C], as [A] then [B, C], and as
\* [C, B, A] leaves the three targets with the same entries, global sums,
\* interior-bin sums and overflow sums.
C5_MergeOrderAndGrouping ==
    (last.op = "Merge" /\ last.a = "T3") =>
        /\ SameStatistics(agg["T1"], agg["T2"])
        /\ SameStatistics(agg["T2"], agg["T3"])

\* the three sources were all filled, and differently
C5_Witness ==
    /\ last.op = "Merge"
    /\ last.a = "T3"
    /\ agg["A"].fEntries > 0
    /\ agg["B"].fEntries > 0
    /\ agg["C"].fEntries > 0
    /\ Globals(agg["A"]) # Globals(agg["B"])
    /\ Globals(agg["B"]) # Globals(agg["C"])
    /\ agg["T3"].fEntries = 3

(***************************************************************************)
(* C6                                                                      *)
(***************************************************************************)
\* the closed domain, and the part of it above both lower edges
InDomain(x, y) == XMin <= x /\ x <= XMax /\ YMin <= y /\ y <= YMax
AboveLowerEdges(x, y) == XMin < x /\ x <= XMax /\ YMin < y /\ y <= YMax

\* C6 as stated: Fill returns 0 whenever the sample lies within the domain
\* and a non-zero region id only when the sample lies outside the domain.
C6_ZeroInsideDomain ==
    last.op = "Fill" =>
        /\ InDomain(last.x, last.y) => last.ret = 0
        /\ last.ret # 0 => ~InDomain(last.x, last.y)

\* C6, amended: with a region registered, Fill never returns 0; it returns
\* a region id in -9..-1, the centre id -5 whenever xmin < x <= xmax and
\* ymin < y <= ymax, and another id whenever the sample is outside the
\* domain.
C6_CentreIdInsideDomain ==
    last.op = "Fill" =>
        /\ last.ret \in (-kNOverflow)..(-1)
        /\ AboveLowerEdges(last.x, last.y) => last.ret = -5
        /\ ~InDomain(last.x, last.y) => last.ret # -5

\* a second sample at the upper corner of the domain, in a polygon
C6_Witness ==
    /\ last.op = "Fill"
    /\ last.x = XMax
    /\ last.y = YMax
    /\ last.ret = -5
    /\ ncalls = 2
    /\ agg["T"].fEntries > 0

(***************************************************************************)
(* C7                                                                      *)
(***************************************************************************)
\* the 3x3 table with both bounds of each axis range in the middle
InclusiveTable(x, y) ==
    (IF y > YMax THEN -1 ELSE IF y < YMin THEN -7 ELSE -4)
    + (IF x > XMax THEN -2 ELSE IF x < XMin THEN 0 ELSE -1)

\* C7 as stated: the region of a sample is the one of the 3x3 table with
\* inclusive bounds: left column iff x < xmin, right column iff x > xmax,
\* middle column otherwise, and the same for the rows; a sample on a lower
\* edge of the domain is in no left or bottom region.
C7_InclusiveBounds ==
    last.op = "Fill" => last.ret = InclusiveTable(last.x, last.y)

(***************************************************************************)
(* C8                                                                      *)
(***************************************************************************)
\* C8 as stated: after any sequence of Fill calls the four sums of the
\* overflow accumulator of the centre cell (slot 4, bin number -5) are 0.
C8_CentreAccumulatorStaysEmpty ==
    Moments(agg["T"].fOverflowBins[5]) = <<0, 0, 0, 0>>

\* C8, amended: every Fill adds its sample to exactly one of the nine
\* overflow accumulators, the one of the returned region id, and leaves
\* the other eight as they were; that one is the centre accumulator for a
\* sample with xmin < x <= xmax and ymin < y <= ymax and another one for
\* a sample outside the domain.
C8_OneAccumulatorPerFill ==
    [][last'.op = "Fill" =>
        LET k == -last'.ret
            old == agg["T"].fOverflowBins
            new == agg'["T"].fOverflowBins
            s == SampleMoments(last'.v, last'.w)
        IN  /\ k \in 1..kNOverflow
            /\ \A m \in 1..4 : Moments(new[k])[m] = Moments(old[k])[m] + s[m]
            /\ \A j \in (1..kNOverflow) \ {k} : new[j] = old[j]
            /\ AboveLowerEdges(last'.x, last'.y) => k = 5
            /\ ~InDomain(last'.x, last'.y) => k # 5]_vars

\* two samples inside the domain are in the centre accumulator
C8_Witness ==
    /\ last.op = "Fill"
    /\ last.ret = -5
    /\ ncalls = 2
    /\ agg["T"].fOverflowBins[5].fSumw2 = 2
    /\ agg["T"].fOverflowBins[5].fSumw = 0

(***************************************************************************)
(* C9                                                                      *)
(***************************************************************************)
\* the interior bins whose polygon contains the point
Containing(h, x, y) == {i \in 1..Len(h.fBins) : IsInside(h.fBins[i], x, y)}

\* the polygons of the histogram tile the domain: L and R
ProperPartition(h) ==
    /\ Len(h.fBins) = 2
    /\ h.fBins[1].fPoly = "L"
    /\ h.fBins[2].fPoly = "R"

\* C9: every Fill increases fEntries by the number of interior bins that
\* contain the point, which is 1 on a partition of the domain for a point
\* of the domain and 0 for a point outside the domain; a Fill whose point
\* is in no interior bin leaves fEntries and every interior bin unchanged,
\* adds the sample to the nine global sums and adds it to one overflow
\* accumulator.
C9_EntriesCountInteriorHits ==
    [][last'.op = "Fill" =>
        LET h == agg["T"]
            g == agg'["T"]
            x == last'.x
            y == last'.y
            hits == Containing(h, x, y)
            s == SampleMoments(last'.v, last'.w)
            t == SampleGlobals(x, y, last'.v, last'.w)
        IN  /\ g.fEntries = h.fEntries + Cardinality(hits)
            /\ (ProperPartition(h) /\ InDomain(x, y)) => Cardinality(hits) = 1
            /\ ~InDomain(x, y) => hits = {}
            /\ hits = {} =>
                  /\ g.fEntries = h.fEntries
                  /\ g.fBins = h.fBins
                  /\ \A m \in 1..9 : Globals(g)[m] = Globals(h)[m] + t[m]
                  /\ \E k \in 1..kNOverflow :
                        /\ \A m \in 1..4 :
                              Moments(g.fOverflowBins[k])[m]
                                 = Moments(h.fOverflowBins[k])[m] + s[m]
                        /\ \A j \in (1..kNOverflow) \ {k} :
                              g.fOverflowBins[j] = h.fOverflowBins[j]]_vars

\* a sample in the gap beside the only polygon, after a sample inside it
C9_Witness ==
    /\ last.op = "Fill"
    /\ Len(agg["T"].fBins) = 1
    /\ InDomain(last.x, last.y)
    /\ Containing(agg["T"], last.x, last.y) = {}
    /\ agg["T"].fEntries = 1
    /\ agg["T"].fTsumw2 = 2

(***************************************************************************)
(* C10                                                                     *)
(***************************************************************************)
\* the quantity an accessor is named after, of one accumulator
QuantityOf(acc, b) ==
    CASE acc = "GetBinEffectiveEntries" ->
            (IF b.fSumw2 = 0 THEN Zero ELSE Quot(b.fSumw * b.fSumw, b.fSumw2))
      [] acc = "GetBinEntries" -> Num(b.fSumw)
      [] acc = "GetBinEntriesW2" -> Num(b.fSumw2)
      [] acc = "GetBinEntriesVW" -> Num(b.fSumvw)
      [] acc = "GetBinEntriesWV2" -> Num(b.fSumwv2)
      [] acc = "GetBinError" -> b.fError

\* C10 as stated: each of the six accessors returns, for a bin number b in
\* 1..N, its quantity of the interior bin b; for b in -9..-1, its quantity
\* of the overflow accumulator at slot -b - 1, the one Fill and Merge
\* update; and 0 for b = 0, b > N and b < -9.
C10_AccessorsReadTheAccumulators ==
    last.op \in Accessors =>
        LET h == agg[last.a]
            b == last.bin
        IN  last.ret =
               IF b \in 1..Len(h.fBins) THEN QuantityOf(last.op, h.fBins[b])
               ELSE IF b \in (-kNOverflow)..(-1)
                    THEN QuantityOf(last.op, h.fOverflowBins[-b])
                    ELSE Zero

(***************************************************************************)
(* C11                                                                     *)
(***************************************************************************)
\* the four sums of c are those of b and one more sample
SampleAdded(b, c, v, w) ==
    \A m \in 1..4 : Moments(c)[m] = Moments(b)[m] + SampleMoments(v, w)[m]

\* C11 as stated: the Fill of a bin adds the sample to the four sums and
\* leaves the bin's average and error as they were.
C11_FillLeavesDerivedValues ==
    [][last'.op = "BinFill" =>
        LET b == agg[last'.a].fBins[last'.bin]
            c == agg'[last'.a].fBins[last'.bin]
        IN  /\ SampleAdded(b, c, last'.v, last'.w)
            /\ c.fAverage = b.fAverage
            /\ c.fError = b.fError]_vars

\* C11, amended: the Fill of a bin adds the sample to the four sums and
\* then updates the bin itself: the average is fSumvw / fSumw of the new
\* sums (the old average where the new fSumw is 0), the bin is marked
\* changed, and an Update called afterwards changes nothing.
C11_FillUpdatesDerivedValues ==
    [][last'.op = "BinFill" =>
        LET b == agg[last'.a].fBins[last'.bin]
            c == agg'[last'.a].fBins[last'.bin]
        IN  /\ SampleAdded(b, c, last'.v, last'.w)
            /\ c.fAverage = IF c.fSumw # 0 THEN Quot(c.fSumvw, c.fSumw) ELSE b.fAverage
            /\ c.fChanged
            /\ TProfile2PolyBin_Update(c) = c]_vars

\* two fills of the bin alone, with the values 1 and 2: the average is 3/2
\* and the spread 1/2 with no Update called
C11_Witness ==
    /\ last.op = "BinFill"
    /\ ncalls = 2
    /\ agg["T"].fEntries = 0
    /\ agg["T"].fBins[1].fSumw = 2
    /\ agg["T"].fBins[1].fAverage = Quot(3, 2)
    /\ agg["T"].fBins[1].fError = Quot(1, 2)

(***************************************************************************)
(* C13                                                                     *)
(***************************************************************************)
\* C13 as stated: in either error mode, an Update that follows ClearStats
\* leaves the bin with its four sums 0, its average 0 and its error 0.
C13_ClearedBinUpdatesToZero ==
    [][(last.op = "BinClearStats" /\ last'.op = "BinUpdate") =>
        LET c == agg'[last'.a].fBins[last'.bin]
        IN  /\ Moments(c) = <<0, 0, 0, 0>>
            /\ c.fAverage = Zero
            /\ c.fError = Zero]_vars

(***************************************************************************)
(* C17                                                                     *)
(***************************************************************************)
\* C17: every Fill and Update of a bin whose sum of weights is 0 afterwards
\* leaves the bin's average as it was, never resets it to 0, and otherwise
\* sets it to fSumvw / fSumw; the content that the histogram's Fill writes
\* for the bin is that average.
C17_AverageFrozenAtZeroWeight ==
    [][last'.op \in {"Fill", "BinFill", "BinUpdate"} =>
        LET b == agg["T"].fBins[1]
            c == agg'["T"].fBins[1]
        IN  /\ c.fSumw = 0 => c.fAverage = b.fAverage
            /\ c.fSumw # 0 => c.fAverage = Quot(c.fSumvw, c.fSumw)
            /\ last'.op = "Fill" => c.fContent = c.fAverage]_vars

\* weight 1 and then weight -1: the sum of weights is back to 0 and the
\* average and the content are still the non-zero ones of the first fill
C17_Witness ==
    /\ last.op = "Fill"
    /\ last.w = -1
    /\ agg["T"].fBins[1].fSumw = 0
    /\ agg["T"].fBins[1].fSumw2 = 2
    /\ agg["T"].fBins[1].fSumvw # 0
    /\ agg["T"].fBins[1].fAverage = Num(2)
    /\ agg["T"].fBins[1].fContent = Num(2)

(***************************************************************************)
(* C12                                                                     *)
(***************************************************************************)
\* C12: after the fills with weight 1 of the values of a non-empty list
\* into a fresh or cleared bin, and Update, the bin's fSumw is the length
\* of the list, its fSumvw the sum of the values, and its average their
\* quotient: the average times the length is the sum of the values.
C12_UnitWeightAverageIsMean ==
    last.op = "Fill3" =>
        LET b == TProfile2PolyBin_Update(agg["T"].fBins[1])
            n == Len(last.list)
            sum == SeqSum(last.list)
        IN  /\ n > 0
            /\ b.fSumw = n
            /\ b.fSumvw = sum
            /\ b.fAverage = Quot(sum, n)
            /\ b.fAverage.k = "q"
            /\ b.fAverage.n * n = sum * b.fAverage.d

\* the values 10 and 20 in a fresh bin: average 15, two entries
C12_Witness ==
    /\ last.op = "Fill3"
    /\ last.list = <<10, 20>>
    /\ agg["T"].fBins[1].fAverage = Num(15)
    /\ agg["T"].fEntries = 2

(***************************************************************************)
(* C14                                                                     *)
(***************************************************************************)
\* the interior bins of h have no statistics and no content
InteriorCleared(h) ==
    \A i \in 1..Len(h.fBins) :
        /\ Moments(h.fBins[i]) = <<0, 0, 0, 0>>
        /\ h.fBins[i].fAverage = Zero
        /\ h.fBins[i].fError = Zero
        /\ h.fBins[i].fContent = Zero

\* the bins of h are those of g, by number and polygon
SameBins(g, h) ==
    /\ h.fNcells = g.fNcells
    /\ Len(h.fBins) = Len(g.fBins)
    /\ \A i \in 1..Len(g.fBins) :
          /\ h.fBins[i].fPoly = g.fBins[i].fPoly
          /\ h.fBins[i].fNumber = g.fBins[i].fNumber

\* C14 as stated: Reset leaves the histogram with the bins it had, every
\* interior bin with its four sums, average, error and content 0, and
\* every one of the nine overflow accumulators with its four sums 0.
C14_ResetClearsAllStatistics ==
    [][last'.op = "Reset" =>
        /\ SameBins(agg[last'.a], agg'[last'.a])
        /\ InteriorCleared(agg'[last'.a])
        /\ \A k \in 1..kNOverflow :
              Moments(agg'[last'.a].fOverflowBins[k]) = <<0, 0, 0, 0>>]_vars

(***************************************************************************)
(* C15                                                                     *)
(***************************************************************************)
\* C15 as stated: in every state reached by registering bins, setting the
\* error option, Fill and Merge, every registered bin of a histogram has
\* the histogram's error mode.
C15_ErrorModeShared ==
    \A a \in DOMAIN agg :
        \A i \in 1..Len(agg[a].fBins) : agg[a].fBins[i].fErrorMode = agg[a].fErrorMode

(***************************************************************************)
(* C16                                                                     *)
(***************************************************************************)
\* C16: SetErrorOption(type) sets the histogram's error mode and the error
\* mode of every registered bin to type and changes nothing else: not the
\* nine overflow accumulators, the other fields of the bins, the entries
\* or the global sums.
C16_SetErrorOptionFrame ==
    [][last'.op = "SetErrorOption" =>
        LET h == agg[last'.a]
            g == agg'[last'.a]
            type == last'.list[1]
        IN  /\ g.fErrorMode = type
            /\ Len(g.fBins) = Len(h.fBins)
            /\ \A i \in 1..Len(h.fBins) :
                  /\ g.fBins[i].fErrorMode = type
                  /\ [g.fBins[i] EXCEPT !.fErrorMode = h.fBins[i].fErrorMode] = h.fBins[i]
            /\ g.fOverflowBins = h.fOverflowBins
            /\ g.fEntries = h.fEntries
            /\ Globals(g) = Globals(h)
            /\ [g EXCEPT !.fErrorMode = h.fErrorMode, !.fBins = h.fBins] = h
            /\ \A b \in DOMAIN agg \ {last'.a} : agg'[b] = agg[b]]_vars

\* the mode of a filled histogram is changed: its bin has the new mode and
\* its sums, the filled overflow accumulator has the old mode
C16_Witness ==
    /\ last.op = "SetErrorOption"
    /\ last.list = <<"kERRORMEAN">>
    /\ Len(agg["T"].fBins) = 1
    /\ agg["T"].fBins[1].fErrorMode = "kERRORMEAN"
    /\ agg["T"].fBins[1].fSumw # 0
    /\ agg["T"].fEntries = 1
    /\ \E k \in 1..kNOverflow :
          /\ agg["T"].fOverflowBins[k].fSumw # 0
          /\ agg["T"].fOverflowBins[k].fErrorMode = "kERRORSPREAD"

(***************************************************************************)
(* C19                                                                     *)
(***************************************************************************)
\* C19 as stated: the slot -id - 1 of the region id that a Fill gets from
\* GetOverflowRegionFromCoordinates is one of the nine slots 0..8 of the
\* overflow accumulators, in every state of the histogram, with or
\* without a registered bin.
C19_OverflowSlotInRange ==
    last.op = "Fill" => OverflowIdxToArrayIdx(last.ret) \in 0..(kNOverflow - 1)

(***************************************************************************)
(* C18                                                                     *)
(***************************************************************************)
\* C18 as stated: a Merge that gets past its check of the bin counts uses
\* the indices 0..nbins-1 only where the target and every source have a
\* bin, and a list whose common bin count is larger than the target's is
\* rejected.
C18_MergeIndexesExistingBins ==
    (last.op = "Merge" /\ last.list # <<>>) =>
        LET nbins == Len(agg[last.list[1]].fBins)
        IN  /\ last.ret # -1 =>
                  /\ nbins <= Len(agg[last.a].fBins)
                  /\ \A j \in 1..Len(last.list) : nbins <= Len(agg[last.list[j]].fBins)
            /\ nbins > Len(agg[last.a].fBins) => last.ret = -1

(***************************************************************************)
(* C20                                                                     *)
(***************************************************************************)
\* the sum over the nine overflow accumulators of one of the four sums
OverflowTotal(h, m) == SeqSum([k \in 1..kNOverflow |-> Moments(h.fOverflowBins[k])[m]])

\* C20: in every state reached by Fill and Merge on histograms with bins,
\* each histogram's fTsumw, fTsumw2 and fTsumwz are the sums over its nine
\* overflow accumulators of fSumw, fSumw2 and fSumvw.
C20_GlobalSumsAreOverflowTotals ==
    \A a \in DOMAIN agg :
        /\ agg[a].fTsumw = OverflowTotal(agg[a], 1)
        /\ agg[a].fTsumwz = OverflowTotal(agg[a], 2)
        /\ agg[a].fTsumw2 = OverflowTotal(agg[a], 3)

\* a filled target after the merge of two filled sources, its samples in
\* more than one accumulator
C20_Witness ==
    /\ last.op = "Merge"
    /\ last.ret = 1
    /\ Len(last.list) = 2
    /\ agg["T"].fTsumw2 = 2
    /\ agg["T"].fTsumwz # 0
    /\ agg["T"].fOverflowBins[5].fSumw2 = 1
    /\ agg["T"].fOverflowBins[7].fSumw2 = 1

====
